---- MODULE Spec2Model ----
(***************************************************************************)
(* Model of scripts/performance-monitoring.py: the alert manager           *)
(* (threshold classification, cooldown, dispatch to the store and to the   *)
(* notification handlers) and the monitoring loop that drives it.          *)
(*                                                                         *)
(* Python's Optional[T] is modelled as a sequence of length 0 or 1:        *)
(* None is << >> and a present value x is << x >>.  Timestamps and the     *)
(* wall clock are minutes as integers; ISO-8601 strings of one clock sort  *)
(* as their instants do.                                                   *)
(***************************************************************************)
EXTENDS Integers, Sequences, FiniteSets, TLC

\* ---------------------------------------------------------------- bounds
\* the clock makes at most MaxTicks steps of TickMinutes minutes
MaxTicks == 2
TickMinutes == 8
\* sample values and thresholds range over 0..MaxValue
MaxValue == 2
\* rows the alert table may hold
MaxAlerts == 2
\* store failures the environment may inject
MaxStoreFaults == 1
\* loop threads that may be created, and cycles the loop threads may run in all
MaxThreads == 2
MaxCycles == 2
\* samples and alerts passed to one health aggregation
MaxBatch == 3

\* ------------------------------------------------------ program constants
\* AlertManager.alert_cooldown = timedelta(minutes=15)
AlertCooldown == 15

None == << >>
Some(x) == << x >>

MetricNames == {"cpu_usage", "memory_usage"}
Values == 0..MaxValue
\* warning levels stay below the top value, so that a value can lie between a
\* warning and a critical threshold; 0 is a threshold like any other
WarningLevels == {None} \cup {Some(v) : v \in 0..(MaxValue - 1)}
CriticalLevels == {None, Some(0), Some(MaxValue)}

VARIABLES
    now,                    \* datetime.now(), in minutes
    recent_alerts,          \* AlertManager.recent_alerts: cooldown key -> time
    notification_handlers,  \* AlertManager.notification_handlers
    performance_alerts,     \* rows of table performance_alerts, in insertion order
    performance_metrics,    \* rows of table performance_metrics, in insertion order
    system_health,          \* rows of table system_health, in insertion order
    dispatched,             \* history: key and clock of every alert persisted and notified
    store_faults,           \* store failures injected so far
    call,                   \* the last check_metric_thresholds call: its argument, the
                            \* state it started from, what it returned and what it did
    monitoring_active,      \* PerformanceMonitoringSystem.monitoring_active
    monitoring_thread,      \* PerformanceMonitoringSystem.monitoring_thread
    threads,                \* where each _monitoring_loop thread is
    main,                   \* where the thread calling start/stop_monitoring is
    cycle,                  \* the last _collect_and_analyze_metrics: its batch, the
                            \* state it started from, what it did and how it ended
    api,                    \* the start_monitoring call just made and the state it
                            \* started from
    stop_requested,         \* the loop threads that were alive at a stop_monitoring
    health_call,            \* a direct _calculate_system_health call: its arguments,
                            \* the state it started from, its result, and the result
                            \* of a later call with the same arguments
    collect_call,           \* the last collect_metrics call: the collector, how each
                            \* of its probes fared, what it returned
    db_call                 \* the last direct PerformanceDatabase call: the method,
                            \* its arguments, the tables before it, how it ended

alertVars == <<recent_alerts, performance_alerts, dispatched>>
storeVars == <<performance_metrics, system_health>>
loopVars == <<monitoring_active, monitoring_thread, threads, main>>
pureVars == <<collect_call, db_call>>
obsVars == <<cycle, api, stop_requested, health_call, pureVars>>
vars == <<now, notification_handlers, alertVars, storeVars, store_faults, call, loopVars,
          obsVars>>

\* ------------------------------------------------------------ data model
\* dataclass PerformanceMetric; unit and metadata play no part in evaluation: the
\* unit is that of the percentages, metadata defaults to None
PerformanceMetric(ts, name, value, tw, tc) ==
    [timestamp |-> ts, metric_name |-> name, value |-> value, unit |-> "percent",
     threshold_warning |-> tw, threshold_critical |-> tc, metadata |-> None]

\* dataclass PerformanceAlert; resolved defaults to False, resolved_at to None
PerformanceAlert(ts, type, name, value, threshold, message, severity, resolved, resolved_at) ==
    [timestamp |-> ts, alert_type |-> type, metric_name |-> name,
     current_value |-> value, threshold |-> threshold, message |-> message,
     severity |-> severity, resolved |-> resolved, resolved_at |-> resolved_at]

\* Python truthiness of an Optional[float]: None and 0 are falsy
Truthy(x) == x # None /\ x[1] # 0

\* `x or 0`
OrZero(x) == IF Truthy(x) THEN x[1] ELSE 0

\* The data model's caller contract: warning <= critical when both are present
ThresholdContract(tw, tc) == (tw # None /\ tc # None) => tw[1] <= tc[1]

\* ----------------------------------------------------------------- store
\* ORDER BY timestamp DESC: insert row r into a sequence sorted newest-first
RECURSIVE InsertDesc(_, _)
InsertDesc(r, s) ==
    IF s = << >> THEN << r >>
    ELSE IF r.timestamp > Head(s).timestamp THEN << r >> \o s
    ELSE << Head(s) >> \o InsertDesc(r, Tail(s))

RECURSIVE OrderByTimestampDesc(_)
OrderByTimestampDesc(s) ==
    IF s = << >> THEN << >>
    ELSE InsertDesc(Head(s), OrderByTimestampDesc(Tail(s)))

IsUnresolved(a) == a.resolved = FALSE

\* PerformanceDatabase.get_active_alerts: WHERE resolved = FALSE ORDER BY timestamp DESC
get_active_alerts(table) == OrderByTimestampDesc(SelectSeq(table, IsUnresolved))

\* faulty variant: a recovery row is stored by also marking the metric's earlier
\* rows as resolved
store_alert_resolving(table, alert, storeOk) ==
    IF ~storeOk THEN table
    ELSE Append([i \in 1..Len(table) |->
                    IF alert.resolved /\ table[i].metric_name = alert.metric_name
                    THEN [table[i] EXCEPT !.resolved = TRUE, !.resolved_at = alert.resolved_at]
                    ELSE table[i]],
                alert)

\* PerformanceDatabase.store_alert: one INSERT, committed, or an exception and no row
store_alert(table, alert, storeOk) ==
    IF storeOk THEN Append(table, alert) ELSE table

\* --------------------------------------------------------- alert manager
\* faulty variant: the metric-name filter is dropped
get_recent_alerts_any_metric(table, metric_name) ==
    get_active_alerts(table)

\* AlertManager._get_recent_alerts_for_metric
get_recent_alerts_for_metric(table, metric_name) ==
    LET HasName(a) == a.metric_name = metric_name
    IN  SelectSeq(get_active_alerts(table), HasName)

\* faulty variant: the recovery alert is built with the severity of a warning
ClassifyMetric_recovery_as_warning(metric, table) ==
    IF Truthy(metric.threshold_critical) /\ metric.value >= metric.threshold_critical[1]
    THEN Some(PerformanceAlert(metric.timestamp, "critical", metric.metric_name,
                               metric.value, metric.threshold_critical[1],
                               "is critically high", "critical", FALSE, None))
    ELSE IF Truthy(metric.threshold_warning) /\ metric.value >= metric.threshold_warning[1]
    THEN Some(PerformanceAlert(metric.timestamp, "warning", metric.metric_name,
                               metric.value, metric.threshold_warning[1],
                               "is elevated", "warning", FALSE, None))
    ELSE IF get_recent_alerts_for_metric(table, metric.metric_name) # << >>
    THEN Some(PerformanceAlert(metric.timestamp, "recovery", metric.metric_name,
                               metric.value, OrZero(metric.threshold_warning),
                               "has recovered", "warning", TRUE, Some(metric.timestamp)))
    ELSE None

\* faulty variant: the recovery alert is built without resolved=True and resolved_at
ClassifyMetric_recovery_unresolved(metric, table) ==
    IF Truthy(metric.threshold_critical) /\ metric.value >= metric.threshold_critical[1]
    THEN Some(PerformanceAlert(metric.timestamp, "critical", metric.metric_name,
                               metric.value, metric.threshold_critical[1],
                               "is critically high", "critical", FALSE, None))
    ELSE IF Truthy(metric.threshold_warning) /\ metric.value >= metric.threshold_warning[1]
    THEN Some(PerformanceAlert(metric.timestamp, "warning", metric.metric_name,
                               metric.value, metric.threshold_warning[1],
                               "is elevated", "warning", FALSE, None))
    ELSE IF get_recent_alerts_for_metric(table, metric.metric_name) # << >>
    THEN Some(PerformanceAlert(metric.timestamp, "recovery", metric.metric_name,
                               metric.value, OrZero(metric.threshold_warning),
                               "has recovered", "info", FALSE, None))
    ELSE None

\* The classification part of check_metric_thresholds (lines 704-745): the alert
\* built, or None
ClassifyMetric(metric, table) ==
    IF Truthy(metric.threshold_critical) /\ metric.value >= metric.threshold_critical[1]
    THEN Some(PerformanceAlert(metric.timestamp, "critical", metric.metric_name,
                               metric.value, metric.threshold_critical[1],
                               "is critically high", "critical", FALSE, None))
    ELSE IF Truthy(metric.threshold_warning) /\ metric.value >= metric.threshold_warning[1]
    THEN Some(PerformanceAlert(metric.timestamp, "warning", metric.metric_name,
                               metric.value, metric.threshold_warning[1],
                               "is elevated", "warning", FALSE, None))
    ELSE IF get_recent_alerts_for_metric(table, metric.metric_name) # << >>
    THEN Some(PerformanceAlert(metric.timestamp, "recovery", metric.metric_name,
                               metric.value, OrZero(metric.threshold_warning),
                               "has recovered", "info", TRUE, Some(metric.timestamp)))
    ELSE None

\* faulty variant: one cooldown entry per metric, whatever the alert type
CooldownKey_by_metric(alert) == <<alert.metric_name, "any">>

\* cooldown_key = f"{alert.metric_name}_{alert.alert_type}"
CooldownKey(alert) == <<alert.metric_name, alert.alert_type>>

\* recent_alerts.get(key)
DictGet(d, k) == IF k \in DOMAIN d THEN Some(d[k]) ELSE None

\* recent_alerts[key] = value
DictSet(d, k, v) == [x \in DOMAIN d \cup {k} |-> IF x = k THEN v ELSE d[x]]

\* faulty variant: the comparison with the cooldown is inverted
is_in_cooldown_inverted(alert, recent, clock) ==
    LET last_alert_time == DictGet(recent, CooldownKey(alert))
    IN  IF last_alert_time # None /\ clock - last_alert_time[1] > AlertCooldown
        THEN [result |-> TRUE, recent_alerts |-> recent]
        ELSE [result |-> FALSE, recent_alerts |-> DictSet(recent, CooldownKey(alert), clock)]

\* faulty variant: the timestamp is refreshed before the check answers, suppressed or not
is_in_cooldown_refreshing(alert, recent, clock) ==
    LET last_alert_time == DictGet(recent, CooldownKey(alert))
    IN  [result |-> last_alert_time # None /\ clock - last_alert_time[1] < AlertCooldown,
         recent_alerts |-> DictSet(recent, CooldownKey(alert), clock)]

\* AlertManager._is_in_cooldown: the answer and the map it leaves behind
is_in_cooldown(alert, recent, clock) ==
    LET last_alert_time == DictGet(recent, CooldownKey(alert))
    IN  IF last_alert_time # None /\ clock - last_alert_time[1] < AlertCooldown
        THEN [result |-> TRUE, recent_alerts |-> recent]
        ELSE [result |-> FALSE, recent_alerts |-> DictSet(recent, CooldownKey(alert), clock)]

\* faulty variant: no try/except around the handler, the first raise ends the loop
RECURSIVE NotifyAll_stop_on_raise(_, _, _, _)
NotifyAll_stop_on_raise(handlers, alert, raising, i) ==
    IF i > Len(handlers) THEN << >>
    ELSE << [op |-> "notify", handler |-> handlers[i], alert |-> alert,
             raised |-> (i \in raising)] >>
         \o (IF i \in raising THEN << >>
             ELSE NotifyAll_stop_on_raise(handlers, alert, raising, i + 1))

\* The handler loop of _send_alert: every handler is called, a raise is caught
RECURSIVE NotifyAll(_, _, _, _)
NotifyAll(handlers, alert, raising, i) ==
    IF i > Len(handlers) THEN << >>
    ELSE << [op |-> "notify", handler |-> handlers[i], alert |-> alert,
             raised |-> (i \in raising)] >>
         \o NotifyAll(handlers, alert, raising, i + 1)

\* AlertManager._send_alert: store_alert first (its exception propagates), then the handlers
send_alert(alert, table, handlers, storeOk, raising) ==
    IF ~storeOk
    THEN [performance_alerts |-> store_alert(table, alert, FALSE),
          events |-> << [op |-> "store_failed", alert |-> alert] >>,
          raised |-> TRUE]
    ELSE [performance_alerts |-> store_alert(table, alert, TRUE),
          events |-> << [op |-> "store", alert |-> alert] >>
                     \o NotifyAll(handlers, alert, raising, 1),
          raised |-> FALSE]

\* faulty variant: the alert is sent and returned although its key is in cooldown
check_metric_thresholds_no_cooldown(metric, table, recent, handlers, clock, storeOk, raising) ==
    LET alert == ClassifyMetric(metric, table)
    IN  IF alert = None
        THEN [ret |-> None, raised |-> FALSE, recent_alerts |-> recent,
              performance_alerts |-> table, events |-> << >>]
        ELSE LET cd == is_in_cooldown(alert[1], recent, clock)
                 sent == send_alert(alert[1], table, handlers, storeOk, raising)
             IN  [ret |-> IF sent.raised THEN None ELSE alert,
                  raised |-> sent.raised, recent_alerts |-> cd.recent_alerts,
                  performance_alerts |-> sent.performance_alerts,
                  events |-> sent.events]

\* faulty variant: the cooldown entry is put back when _send_alert raises
check_metric_thresholds_rollback(metric, table, recent, handlers, clock, storeOk, raising) ==
    LET alert == ClassifyMetric(metric, table)
    IN  IF alert = None
        THEN [ret |-> None, raised |-> FALSE, recent_alerts |-> recent,
              performance_alerts |-> table, events |-> << >>]
        ELSE LET cd == is_in_cooldown(alert[1], recent, clock)
             IN  IF cd.result
                 THEN [ret |-> None, raised |-> FALSE, recent_alerts |-> cd.recent_alerts,
                       performance_alerts |-> table, events |-> << >>]
                 ELSE LET sent == send_alert(alert[1], table, handlers, storeOk, raising)
                      IN  [ret |-> IF sent.raised THEN None ELSE alert,
                           raised |-> sent.raised,
                           recent_alerts |-> IF sent.raised THEN recent
                                             ELSE cd.recent_alerts,
                           performance_alerts |-> sent.performance_alerts,
                           events |-> sent.events]

\* AlertManager.check_metric_thresholds: what it returns and the state it leaves
check_metric_thresholds(metric, table, recent, handlers, clock, storeOk, raising) ==
    LET alert == ClassifyMetric(metric, table)
    IN  IF alert = None
        THEN [ret |-> None, raised |-> FALSE, recent_alerts |-> recent,
              performance_alerts |-> table, events |-> << >>]
        ELSE LET cd == is_in_cooldown(alert[1], recent, clock)
             IN  IF cd.result
                 THEN [ret |-> None, raised |-> FALSE, recent_alerts |-> cd.recent_alerts,
                       performance_alerts |-> table, events |-> << >>]
                 ELSE LET sent == send_alert(alert[1], table, handlers, storeOk, raising)
                      IN  [ret |-> IF sent.raised THEN None ELSE alert,
                           raised |-> sent.raised, recent_alerts |-> cd.recent_alerts,
                           performance_alerts |-> sent.performance_alerts,
                           events |-> sent.events]

\* ------------------------------------------------------------------ init
NoCall == [metric |-> None, ret |-> None, raised |-> FALSE, events |-> << >>,
           alerts_before |-> << >>, recent_before |-> << >>]

NoCycle == [thread |-> None, batch |-> << >>, fault |-> <<"none", 0>>, raised |-> FALSE,
            alerts_generated |-> << >>, events |-> << >>, metrics_before |-> << >>,
            alerts_before |-> << >>, health_before |-> << >>]

NoApi == [op |-> "none", active_before |-> FALSE, thread_before |-> None,
          threads_before |-> << >>]

NoHealthCall == [metrics |-> None, alerts |-> << >>, at |-> 0, result |-> None,
                 before |-> << >>, again |-> None]

NoCollect == [collector |-> "none", outcome |-> << >>, attempted |-> << >>,
              raised |-> FALSE, ret |-> << >>]

NoDbCall == [op |-> "none", args |-> << >>, missing |-> {}, at |-> 0, before |-> << >>,
             raised |-> FALSE, ret |-> << >>, stored |-> None]

\* PerformanceMonitoringSystem.__init__: _log_alert is registered, _email_alert
\* only when SMTP_SERVER and EMAIL_USER are set; monitoring is off, no thread
Init ==
    /\ now = 0
    /\ recent_alerts = << >>
    /\ notification_handlers \in {<< "_log_alert" >>, << "_log_alert", "_email_alert" >>}
    /\ performance_alerts = << >>
    /\ performance_metrics = << >>
    /\ system_health = << >>
    /\ dispatched = << >>
    /\ store_faults = 0
    /\ call = NoCall
    /\ monitoring_active = FALSE
    /\ monitoring_thread = None
    /\ threads = [t \in 1..MaxThreads |-> "unborn"]
    /\ main = "idle"
    /\ cycle = NoCycle
    /\ api = NoApi
    /\ stop_requested = {}
    /\ health_call = NoHealthCall
    /\ collect_call = NoCollect
    /\ db_call = NoDbCall

\* --------------------------------------------------------------- actions
\* The wall clock advances; the record of the last call is of the instant it was
\* made in and is dropped
Tick ==
    /\ now + TickMinutes <= MaxTicks * TickMinutes
    /\ now' = now + TickMinutes
    /\ call' = NoCall
    /\ UNCHANGED <<notification_handlers, alertVars, storeVars, store_faults, loopVars,
                   obsVars>>

\* Samples a caller may pass at time `clock`: the timestamp is the collection
\* time, and the thresholds respect the data model's contract
MetricInputs(clock) ==
    {m \in {PerformanceMetric(clock, name, value, tw, tc) :
               name \in MetricNames, value \in Values,
               tw \in WarningLevels, tc \in CriticalLevels} :
        ThresholdContract(m.threshold_warning, m.threshold_critical)}

\* Whether the call with this sample reaches _send_alert
ReachesSend(metric) ==
    LET alert == ClassifyMetric(metric, performance_alerts)
    IN  alert # None /\ ~is_in_cooldown(alert[1], recent_alerts, now).result

\* The state change of one check_metric_thresholds(metric) at the current clock
EvaluateWith(metric, storeOk, raising) ==
    LET r == check_metric_thresholds(metric, performance_alerts, recent_alerts,
                                     notification_handlers, now, storeOk, raising)
    IN  /\ recent_alerts' = r.recent_alerts
        /\ performance_alerts' = r.performance_alerts
        /\ dispatched' = IF r.ret # None
                         THEN Append(dispatched, [key |-> CooldownKey(r.ret[1]), at |-> now])
                         ELSE dispatched
        /\ store_faults' = IF storeOk THEN store_faults ELSE store_faults + 1
        /\ call' = [metric |-> Some(metric), ret |-> r.ret, raised |-> r.raised,
                    events |-> r.events, alerts_before |-> performance_alerts,
                    recent_before |-> recent_alerts]
        /\ UNCHANGED <<now, notification_handlers, storeVars, loopVars, obsVars>>

\* One call of alert_manager.check_metric_thresholds(metric), the store working;
\* a handler may raise.  A call that would add a row needs room in the table.
Evaluate ==
    \E metric \in MetricInputs(now) :
        \E raising \in SUBSET (1..Len(notification_handlers)) :
            /\ ReachesSend(metric) => Len(performance_alerts) < MaxAlerts
            /\ ~ReachesSend(metric) => raising = {}
            /\ EvaluateWith(metric, TRUE, raising)

\* The same call when store_alert raises (database unreachable)
EvaluateStoreFails ==
    /\ Len(performance_alerts) < MaxAlerts
    /\ store_faults < MaxStoreFaults
    /\ \E metric \in MetricInputs(now) :
            /\ ReachesSend(metric)
            /\ EvaluateWith(metric, FALSE, {})

Next == Tick \/ Evaluate

Spec == Init /\ [][Next]_vars

NextFault == Tick \/ Evaluate \/ EvaluateStoreFails

SpecFault == Init /\ [][NextFault]_vars

\* ====================================================================
\* The monitoring loop
\* ====================================================================
\* SystemPerformanceMonitor.thresholds and ApplicationPerformanceMonitor.thresholds,
\* the entries of the metrics the model collects
SystemThresholds == [cpu_usage |-> [warning |-> 70, critical |-> 85]]
AppThresholds == [error_rate |-> [warning |-> 5, critical |-> 10]]

\* Readings a probe may return: below the warning threshold, at it, at the critical one
Readings(th) == {th.warning - 1, th.warning, th.critical}

\* SystemPerformanceMonitor.collect_metrics: the samples of one collection, each
\* with the table's thresholds and the collection time; nothing when the probe fails
SystemCollect(clock) ==
    {<< >>} \cup
    {<< PerformanceMetric(clock, "cpu_usage", v, Some(SystemThresholds.cpu_usage.warning),
                          Some(SystemThresholds.cpu_usage.critical)) >> :
        v \in Readings(SystemThresholds.cpu_usage)}

\* ApplicationPerformanceMonitor.collect_metrics: the error rate is reported when
\* the log has errors, here at its warning threshold
AppCollect(clock) ==
    {<< >>} \cup
    {<< PerformanceMetric(clock, "error_rate", v, Some(AppThresholds.error_rate.warning),
                          Some(AppThresholds.error_rate.critical)) >> :
        v \in {AppThresholds.error_rate.warning}}

\* json.dumps and json.loads: the text of a value is not the value, and the text
\* of None ("null") or of an empty mapping ("{}") is a non-empty string
json_dumps(x) == [json |-> x]
json_loads(text) == text.json

\* Python truthiness of an Optional[Dict]: None and the empty mapping are falsy
TruthyMapping(md) == md # None /\ md[1] # {}

\* The row store_metric inserts: `json.dumps(metric.metadata) if metric.metadata
\* else None`, every other column as it is in the sample
metric_row(metric) ==
    [metric EXCEPT !.metadata = IF TruthyMapping(@) THEN Some(json_dumps(@[1])) ELSE None]

\* The sample get_recent_metrics builds from a row: `json.loads(row[6]) if row[6]
\* else None`
metric_of_row(row) ==
    [row EXCEPT !.metadata = IF @ # None THEN Some(json_loads(@[1])) ELSE None]

\* The row store_health_snapshot inserts: bottlenecks and recommendations as JSON
\* text
health_row(health) ==
    [health EXCEPT !.bottlenecks = json_dumps(@), !.recommendations = json_dumps(@)]

\* PerformanceDatabase.store_metric: one INSERT
store_metric(table, metric) == Append(table, metric_row(metric))

\* PerformanceDatabase.store_health_snapshot: one INSERT
store_health_snapshot(table, health) == Append(table, health_row(health))

\* faulty variant: the ORDER BY clause is dropped, rows come in insertion order
get_recent_metrics_unordered(table, metric_name, hours, clock) ==
    LET start_time == clock - hours * 60
        Matches(row) == row.metric_name = metric_name /\ row.timestamp >= start_time
        rows == SelectSeq(table, Matches)
    IN  [i \in 1..Len(rows) |-> metric_of_row(rows[i])]

\* PerformanceDatabase.get_recent_metrics: WHERE metric_name = ? AND timestamp >=
\* now - hours ORDER BY timestamp DESC (the clock is in minutes; rows of one
\* timestamp come in an order SQL leaves open, here latest insertion last)
get_recent_metrics(table, metric_name, hours, clock) ==
    LET start_time == clock - hours * 60
        Matches(row) == row.metric_name = metric_name /\ row.timestamp >= start_time
        rows == OrderByTimestampDesc(SelectSeq(table, Matches))
    IN  [i \in 1..Len(rows) |-> metric_of_row(rows[i])]

\* the points a sample costs in _calculate_system_health
MetricDeduction(metric) ==
    IF Truthy(metric.threshold_critical) /\ metric.value >= metric.threshold_critical[1]
    THEN 20
    ELSE IF Truthy(metric.threshold_warning) /\ metric.value >= metric.threshold_warning[1]
    THEN 10
    ELSE 0

\* the bottleneck text a sample adds: f"{name} is critical|elevated ({value} {unit})"
MetricBottleneck(metric) ==
    IF Truthy(metric.threshold_critical) /\ metric.value >= metric.threshold_critical[1]
    THEN << <<metric.metric_name, "is critical", metric.value>> >>
    ELSE IF Truthy(metric.threshold_warning) /\ metric.value >= metric.threshold_warning[1]
    THEN << <<metric.metric_name, "is elevated", metric.value>> >>
    ELSE << >>

RECURSIVE SumDeductions(_)
SumDeductions(metrics) ==
    IF metrics = << >> THEN 0
    ELSE MetricDeduction(Head(metrics)) + SumDeductions(Tail(metrics))

RECURSIVE Bottlenecks(_)
Bottlenecks(metrics) ==
    IF metrics = << >> THEN << >>
    ELSE MetricBottleneck(Head(metrics)) \o Bottlenecks(Tail(metrics))

IsCriticalSeverity(a) == a.severity = "critical"
IsWarningSeverity(a) == a.severity = "warning"
Max(a, b) == IF a >= b THEN a ELSE b
Min(a, b) == IF a <= b THEN a ELSE b

\* faulty variant: the score is not clamped
clamp_score_unbounded(raw) == raw

\* _calculate_system_health: health_score = max(0, min(100, health_score))
clamp_score(raw) == Max(0, Min(100, raw))

\* faulty variant: the breakpoints are exclusive
status_and_grade_exclusive(health_score) ==
    IF health_score > 90 THEN <<"healthy", "A">>
    ELSE IF health_score > 75 THEN <<"good", "B">>
    ELSE IF health_score > 60 THEN <<"degraded", "C">>
    ELSE IF health_score > 40 THEN <<"poor", "D">>
    ELSE <<"critical", "F">>

\* _calculate_system_health: status and performance_grade by the score
status_and_grade(health_score) ==
    IF health_score >= 90 THEN <<"healthy", "A">>
    ELSE IF health_score >= 75 THEN <<"good", "B">>
    ELSE IF health_score >= 60 THEN <<"degraded", "C">>
    ELSE IF health_score >= 40 THEN <<"poor", "D">>
    ELSE <<"critical", "F">>

\* faulty variant: the number of active alerts is taken at the time of the call,
\* as the alerts raised since the clock's start, not from the argument
calculate_system_health_by_clock(metrics, alerts, clock) ==
    LET critical_alerts == SelectSeq(alerts, IsCriticalSeverity)
        warning_alerts == SelectSeq(alerts, IsWarningSeverity)
        bottlenecks == Bottlenecks(metrics)
        health_score == clamp_score(100 - SumDeductions(metrics)
                                        - Len(critical_alerts) * 15
                                        - Len(warning_alerts) * 5)
        tier == status_and_grade(health_score)
    IN  [timestamp |-> clock, health_score |-> health_score, status |-> tier[1],
         active_alerts |-> Len(alerts) + clock, performance_grade |-> tier[2],
         bottlenecks |-> bottlenecks, recommendations |-> << >>]

\* PerformanceMonitoringSystem._calculate_system_health
calculate_system_health(metrics, alerts, clock) ==
    LET critical_alerts == SelectSeq(alerts, IsCriticalSeverity)
        warning_alerts == SelectSeq(alerts, IsWarningSeverity)
        bottlenecks == Bottlenecks(metrics)
        health_score == clamp_score(100 - SumDeductions(metrics)
                                        - Len(critical_alerts) * 15
                                        - Len(warning_alerts) * 5)
        tier == status_and_grade(health_score)
        recommendations ==
            (IF bottlenecks # << >>
             THEN << "Address performance bottlenecks identified" >> ELSE << >>)
            \o (IF critical_alerts # << >>
                THEN << "Immediately resolve critical performance alerts" >> ELSE << >>)
            \o (IF health_score < 80
                THEN << "Review system capacity and resource allocation" >> ELSE << >>)
    IN  [timestamp |-> clock, health_score |-> health_score, status |-> tier[1],
         active_alerts |-> Len(alerts), performance_grade |-> tier[2],
         bottlenecks |-> bottlenecks, recommendations |-> recommendations]

\* The for loop of _collect_and_analyze_metrics from sample i on: every sample is
\* stored, then evaluated, and the alerts returned are collected.  `fault` names
\* the store call that raises, if any; the exception ends the loop.
RECURSIVE StoreAndCheck(_, _, _, _, _, _)
StoreAndCheck(batch, i, st, handlers, clock, fault) ==
    IF i > Len(batch) \/ st.raised THEN st
    ELSE IF fault = <<"store_metric", i>>
    THEN [st EXCEPT !.raised = TRUE,
                    !.events = Append(st.events, [op |-> "store_metric_failed", i |-> i])]
    ELSE LET r == check_metric_thresholds(batch[i], st.performance_alerts,
                                          st.recent_alerts, handlers, clock,
                                          fault # <<"store_alert", i>>, {})
         IN  StoreAndCheck(batch, i + 1,
                 [st EXCEPT
                    !.performance_metrics = store_metric(st.performance_metrics, batch[i]),
                    !.performance_alerts = r.performance_alerts,
                    !.recent_alerts = r.recent_alerts,
                    !.dispatched = IF r.ret # None
                                   THEN Append(st.dispatched,
                                               [key |-> CooldownKey(r.ret[1]), at |-> clock])
                                   ELSE st.dispatched,
                    !.alerts_generated = IF r.ret # None
                                         THEN Append(st.alerts_generated, r.ret[1])
                                         ELSE st.alerts_generated,
                    !.events = st.events
                               \o << [op |-> "store_metric", i |-> i],
                                     [op |-> "check_metric_thresholds", i |-> i] >>
                               \o r.events,
                    !.raised = r.raised],
                 handlers, clock, fault)

\* faulty variant: the snapshot is computed from the batch alone, without the
\* alerts of the cycle
collect_and_analyze_metrics_no_alerts(system_metrics, app_metrics, st, handlers, clock, fault) ==
    LET all_metrics == system_metrics \o app_metrics
        collected == [st EXCEPT !.events = << [op |-> "collect", monitor |-> "system"],
                                              [op |-> "collect", monitor |-> "app"] >>]
        done == StoreAndCheck(all_metrics, 1, collected, handlers, clock, fault)
        health == calculate_system_health(all_metrics, << >>, clock)
    IN  IF done.raised THEN done
        ELSE IF fault = <<"store_health_snapshot", 0>>
        THEN [done EXCEPT !.raised = TRUE,
                          !.events = Append(done.events,
                                            [op |-> "store_health_snapshot_failed"])]
        ELSE [done EXCEPT !.system_health = store_health_snapshot(st.system_health, health),
                          !.events = Append(done.events,
                                            [op |-> "store_health_snapshot",
                                             health |-> health])]

\* faulty variant: the snapshot is computed from the active alerts of the store,
\* not from the alerts the cycle generated
collect_and_analyze_metrics_active_alerts(system_metrics, app_metrics, st, handlers, clock, fault) ==
    LET all_metrics == system_metrics \o app_metrics
        collected == [st EXCEPT !.events = << [op |-> "collect", monitor |-> "system"],
                                              [op |-> "collect", monitor |-> "app"] >>]
        done == StoreAndCheck(all_metrics, 1, collected, handlers, clock, fault)
        health == calculate_system_health(all_metrics,
                                          get_active_alerts(done.performance_alerts), clock)
    IN  IF done.raised THEN done
        ELSE IF fault = <<"store_health_snapshot", 0>>
        THEN [done EXCEPT !.raised = TRUE,
                          !.events = Append(done.events,
                                            [op |-> "store_health_snapshot_failed"])]
        ELSE [done EXCEPT !.system_health = store_health_snapshot(st.system_health, health),
                          !.events = Append(done.events,
                                            [op |-> "store_health_snapshot",
                                             health |-> health])]

\* PerformanceMonitoringSystem._collect_and_analyze_metrics: the state one cycle
\* leaves.  The optimizer acts on the process only (garbage collection, priority,
\* old files) and catches its own exceptions.
collect_and_analyze_metrics(system_metrics, app_metrics, st, handlers, clock, fault) ==
    LET all_metrics == system_metrics \o app_metrics
        collected == [st EXCEPT !.events = << [op |-> "collect", monitor |-> "system"],
                                              [op |-> "collect", monitor |-> "app"] >>]
        done == StoreAndCheck(all_metrics, 1, collected, handlers, clock, fault)
        health == calculate_system_health(all_metrics, done.alerts_generated, clock)
    IN  IF done.raised THEN done
        ELSE IF fault = <<"store_health_snapshot", 0>>
        THEN [done EXCEPT !.raised = TRUE,
                          !.events = Append(done.events,
                                            [op |-> "store_health_snapshot_failed"])]
        ELSE [done EXCEPT !.system_health = store_health_snapshot(st.system_health, health),
                          !.events = Append(done.events,
                                            [op |-> "store_health_snapshot",
                                             health |-> health])]

\* The store calls of a cycle over `n` samples that may be made to raise
CycleFaults(n) ==
    {<<"none", 0>>, <<"store_health_snapshot", 0>>}
    \cup {<<"store_metric", i>> : i \in 1..n} \cup {<<"store_alert", i>> : i \in 1..n}

\* faulty variant: no test of monitoring_active, every call starts a thread
StartMonitoring_unguarded ==
    /\ main = "idle"
    /\ \E t \in 1..MaxThreads :
          /\ threads[t] = "unborn"
          /\ \A u \in 1..(t - 1) : threads[u] # "unborn"
          /\ monitoring_active' = TRUE
          /\ monitoring_thread' = Some(t)
          /\ threads' = [threads EXCEPT ![t] = "test"]
    /\ api' = [op |-> "start_monitoring", active_before |-> monitoring_active,
               thread_before |-> monitoring_thread, threads_before |-> threads]
    /\ cycle' = NoCycle
    /\ UNCHANGED <<now, notification_handlers, alertVars, storeVars, store_faults,
                   call, main, stop_requested, health_call, pureVars>>

\* start_monitoring(): a no-op with a warning when monitoring is active, else the
\* flag is set and a new loop thread is started
StartMonitoring ==
    /\ main = "idle"
    /\ IF monitoring_active
       THEN UNCHANGED <<monitoring_active, monitoring_thread, threads>>
       ELSE \E t \in 1..MaxThreads :
               /\ threads[t] = "unborn"
               /\ \A u \in 1..(t - 1) : threads[u] # "unborn"
               /\ monitoring_active' = TRUE
               /\ monitoring_thread' = Some(t)
               /\ threads' = [threads EXCEPT ![t] = "test"]
    /\ api' = [op |-> "start_monitoring", active_before |-> monitoring_active,
               thread_before |-> monitoring_thread, threads_before |-> threads]
    /\ cycle' = NoCycle
    /\ UNCHANGED <<now, notification_handlers, alertVars, storeVars, store_faults,
                   call, main, stop_requested, health_call, pureVars>>

\* the loop threads that have been started and have not ended
Alive == {t \in 1..MaxThreads : threads[t] \in {"test", "cycle"}}

\* stop_monitoring() up to its join: the flag is cleared; with a thread on record
\* the caller waits in join(timeout=5)
StopMonitoring ==
    /\ main = "idle"
    /\ monitoring_active' = FALSE
    /\ main' = IF monitoring_thread # None THEN "joining" ELSE "idle"
    /\ api' = NoApi
    /\ stop_requested' = stop_requested \cup Alive
    /\ cycle' = NoCycle
    /\ UNCHANGED <<now, notification_handlers, alertVars, storeVars, store_faults,
                   call, monitoring_thread, threads, health_call, pureVars>>

\* join returns because the loop thread has ended
JoinReturns ==
    /\ main = "joining"
    /\ threads[monitoring_thread[1]] = "done"
    /\ main' = "idle"
    /\ api' = NoApi
    /\ cycle' = NoCycle
    /\ UNCHANGED <<now, notification_handlers, alertVars, storeVars, store_faults,
                   call, monitoring_active, monitoring_thread, threads,
                   stop_requested, health_call, pureVars>>

\* join returns because its 5 seconds are over while the loop thread still sleeps
\* its interval (30 s by default) or is inside a cycle
JoinTimesOut ==
    /\ main = "joining"
    /\ threads[monitoring_thread[1]] \in {"test", "cycle"}
    /\ main' = "idle"
    /\ api' = NoApi
    /\ cycle' = NoCycle
    /\ UNCHANGED <<now, notification_handlers, alertVars, storeVars, store_faults,
                   call, monitoring_active, monitoring_thread, threads,
                   stop_requested, health_call, pureVars>>

\* _monitoring_loop: `while self.monitoring_active`, evaluated when the thread
\* starts and each time its time.sleep(self.monitoring_interval) is over
LoopTest(t) ==
    /\ threads[t] = "test"
    /\ threads' = [threads EXCEPT ![t] = IF monitoring_active THEN "cycle" ELSE "done"]
    /\ api' = NoApi
    /\ cycle' = NoCycle
    /\ UNCHANGED <<now, notification_handlers, alertVars, storeVars, store_faults,
                   call, monitoring_active, monitoring_thread, main,
                   stop_requested, health_call, pureVars>>

\* faulty variant: no except clause, an exception ends the thread
after_cycle_fatal(raised) == IF raised THEN "done" ELSE "test"

\* _monitoring_loop: where the thread is after the try body: it returned or its
\* exception was caught, either way the thread sleeps and then tests the flag
after_cycle(raised) == "test"

\* _monitoring_loop: the try body, one _collect_and_analyze_metrics
LoopCycle(t) ==
    /\ threads[t] = "cycle"
    /\ Len(system_health) + store_faults < MaxCycles
    /\ \E system_metrics \in SystemCollect(now), app_metrics \in AppCollect(now) :
         \E fault \in CycleFaults(Len(system_metrics) + Len(app_metrics)) :
            /\ fault[1] # "none" => store_faults < MaxStoreFaults
            /\ LET st == [performance_metrics |-> performance_metrics,
                          performance_alerts |-> performance_alerts,
                          recent_alerts |-> recent_alerts,
                          dispatched |-> dispatched,
                          system_health |-> system_health,
                          alerts_generated |-> << >>,
                          events |-> << >>,
                          raised |-> FALSE]
                   r == collect_and_analyze_metrics(system_metrics, app_metrics, st,
                                                    notification_handlers, now, fault)
               IN  /\ fault[1] # "none" => r.raised
                   /\ performance_metrics' = r.performance_metrics
                   /\ performance_alerts' = r.performance_alerts
                   /\ recent_alerts' = r.recent_alerts
                   /\ dispatched' = r.dispatched
                   /\ system_health' = r.system_health
                   /\ store_faults' = IF r.raised THEN store_faults + 1 ELSE store_faults
                   /\ threads' = [threads EXCEPT ![t] = after_cycle(r.raised)]
                   /\ cycle' = [thread |-> Some(t),
                                batch |-> system_metrics \o app_metrics,
                                fault |-> fault, raised |-> r.raised,
                                alerts_generated |-> r.alerts_generated,
                                events |-> r.events,
                                metrics_before |-> performance_metrics,
                                alerts_before |-> performance_alerts,
                                health_before |-> system_health]
    /\ api' = NoApi
    /\ UNCHANGED <<now, notification_handlers, call, monitoring_active,
                   monitoring_thread, main, stop_requested, health_call, pureVars>>

\* The clock of the loop specification: time passes, no call record is kept
LoopTick ==
    /\ now + TickMinutes <= MaxTicks * TickMinutes
    /\ now' = now + TickMinutes
    /\ api' = NoApi
    /\ cycle' = NoCycle
    /\ UNCHANGED <<notification_handlers, alertVars, storeVars, store_faults, call,
                   loopVars, stop_requested, health_call, pureVars>>

NextLoop ==
    \/ LoopTick
    \/ StartMonitoring
    \/ StopMonitoring
    \/ JoinReturns
    \/ JoinTimesOut
    \/ \E t \in 1..MaxThreads : LoopTest(t) \/ LoopCycle(t)

\* The loop is studied in the configuration with both handlers registered
InitLoop == Init /\ Len(notification_handlers) = 2

SpecLoop == InitLoop /\ [][NextLoop]_vars

\* A loop thread that exists is scheduled: its sleep ends and it tests the flag
SpecLoopFair == SpecLoop /\ \A t \in 1..MaxThreads : WF_vars(LoopTest(t))

\* ====================================================================
\* The health aggregation called on its own
\* ====================================================================
\* Samples of one metric with the system monitor's thresholds: in range, at the
\* warning threshold, above the critical one
HealthSamples(clock) ==
    {PerformanceMetric(clock, "cpu_usage", v, Some(70), Some(85)) : v \in {69, 70, 92}}

\* A sample whose critical threshold is 0 and whose value is above it
ZeroThresholdSample(clock) == PerformanceMetric(clock, "error_rate", 1, None, Some(0))

\* The sequences over S of length at most n
SeqsUpTo(S, n) == UNION {[1..k -> S] : k \in 0..n}

\* Batches of at most MaxBatch samples, and two batches with the zero-threshold sample
HealthBatches(clock) ==
    SeqsUpTo(HealthSamples(clock), MaxBatch)
    \cup {<< ZeroThresholdSample(clock) >>}
    \cup {<< s, ZeroThresholdSample(clock) >> : s \in HealthSamples(clock)}

\* An alert of each severity the evaluator produces
HealthAlert(severity) ==
    IF severity = "critical"
    THEN PerformanceAlert(0, "critical", "cpu_usage", 92, 85, "is critically high",
                          "critical", FALSE, None)
    ELSE IF severity = "warning"
    THEN PerformanceAlert(0, "warning", "cpu_usage", 70, 70, "is elevated",
                          "warning", FALSE, None)
    ELSE PerformanceAlert(0, "recovery", "cpu_usage", 69, 70, "has recovered",
                          "info", TRUE, Some(0))

\* Lists of at most MaxBatch alerts
HealthAlertLists ==
    SeqsUpTo({HealthAlert(sev) : sev \in {"critical", "warning", "info"}}, MaxBatch)

\* One _calculate_system_health(metrics, alerts) at the current clock, in an
\* instant without evaluations: the method reads its arguments and datetime.now()
\* and writes nothing
CalculateHealth ==
    /\ health_call = NoHealthCall
    /\ call = NoCall
    /\ \E metrics \in HealthBatches(now), alerts \in HealthAlertLists :
          health_call' = [metrics |-> Some(metrics), alerts |-> alerts, at |-> now,
                          result |-> Some(calculate_system_health(metrics, alerts, now)),
                          before |-> <<alertVars, storeVars>>, again |-> None]
    /\ UNCHANGED <<now, notification_handlers, alertVars, storeVars, store_faults, call,
                   loopVars, cycle, api, stop_requested, pureVars>>

\* The same arguments are passed again, now or later
RecalculateHealth ==
    /\ health_call # NoHealthCall
    /\ health_call.again = None
    /\ health_call' =
          [health_call EXCEPT
              !.again = Some(calculate_system_health(health_call.metrics[1],
                                                     health_call.alerts, now))]
    /\ UNCHANGED <<now, notification_handlers, alertVars, storeVars, store_faults, call,
                   loopVars, cycle, api, stop_requested, pureVars>>

\* The store and the cooldown map are brought to different states, at the first
\* instant, before the aggregation is called
EvaluateBeforeHealth ==
    /\ health_call = NoHealthCall
    /\ now = 0
    /\ performance_alerts = << >>
    /\ Evaluate

NextHealth == Tick \/ EvaluateBeforeHealth \/ CalculateHealth \/ RecalculateHealth

SpecHealth == InitLoop /\ [][NextHealth]_vars

\* ====================================================================
\* The collectors, probe by probe
\* ====================================================================
\* SystemPerformanceMonitor.collect_metrics: its probes in the order of the code,
\* each named by the sample it appends
SystemSteps ==
    << "cpu_usage", "memory_usage", "disk_usage", "disk_io_latency", "load_average",
       "network_latency" >>

\* SystemPerformanceMonitor.thresholds (load average 2.0 and 5.0)
SystemStepThresholds ==
    [cpu_usage |-> [warning |-> 70, critical |-> 85],
     memory_usage |-> [warning |-> 75, critical |-> 90],
     disk_usage |-> [warning |-> 80, critical |-> 95],
     disk_io_latency |-> [warning |-> 100, critical |-> 500],
     load_average |-> [warning |-> 2, critical |-> 5],
     network_latency |-> [warning |-> 200, critical |-> 1000]]

\* How a probe of the system collector may fare. "raises": an exception leaves the
\* probe. "os_error": os.getloadavg raises AttributeError or OSError, which the
\* inner handler of the load-average block catches. "none": the probe returns
\* nothing (psutil.disk_io_counters() is None; _test_network_latency catches the
\* failure of every host and returns None)
SystemOutcomes(step) ==
    CASE step = "disk_io_latency" -> {"ok", "none", "raises"}
      [] step = "load_average" -> {"ok", "os_error", "raises"}
      [] step = "network_latency" -> {"ok", "none"}
      [] OTHER -> {"ok", "raises"}

\* One probe after the other inside the single try block of collect_metrics: an
\* exception that leaves a probe is caught by the handler of the whole block, which
\* logs it and returns the samples appended so far
RECURSIVE system_collect_from(_, _, _, _)
system_collect_from(i, clock, outcome, done) ==
    IF i > Len(SystemSteps) THEN done
    ELSE LET step == SystemSteps[i]
             th == SystemStepThresholds[step]
             tried == [done EXCEPT !.attempted = Append(@, step)]
         IN  CASE outcome[step] = "ok" ->
                    system_collect_from(i + 1, clock, outcome,
                        [tried EXCEPT !.ret =
                            Append(@, PerformanceMetric(clock, step, th.warning - 1,
                                                        Some(th.warning), Some(th.critical)))])
               [] outcome[step] = "raises" -> tried
               [] OTHER -> system_collect_from(i + 1, clock, outcome, tried)

\* SystemPerformanceMonitor.collect_metrics
system_collect_metrics(clock, outcome) ==
    system_collect_from(1, clock, outcome,
                        [attempted |-> << >>, raised |-> FALSE, ret |-> << >>])

\* ApplicationPerformanceMonitor.collect_metrics: its probes in the order of the
\* code (one script in performance_log.json)
AppSteps ==
    << "script_execution_time_deploy", "api_response_time_linear",
       "api_response_time_github", "memory_usage_mb", "error_rate" >>

\* ApplicationPerformanceMonitor.thresholds, by sample
AppStepThresholds ==
    [script_execution_time_deploy |-> [warning |-> 30, critical |-> 60],
     api_response_time_linear |-> [warning |-> 2000, critical |-> 5000],
     api_response_time_github |-> [warning |-> 2000, critical |-> 5000],
     memory_usage_mb |-> [warning |-> 512, critical |-> 1024],
     error_rate |-> [warning |-> 5, critical |-> 10]]

\* How a probe of the application collector may fare. "fails": the exception is
\* caught inside the probe's own method, which logs it and returns nothing
\* (_get_script_performance_metrics, _test_api_response_time,
\* _get_application_memory_usage, _calculate_error_rate)
AppOutcomes(step) == {"ok", "fails"}

RECURSIVE app_collect_from(_, _, _, _)
app_collect_from(i, clock, outcome, done) ==
    IF i > Len(AppSteps) THEN done
    ELSE LET step == AppSteps[i]
             th == AppStepThresholds[step]
             tried == [done EXCEPT !.attempted = Append(@, step)]
         IN  IF outcome[step] = "ok"
             THEN app_collect_from(i + 1, clock, outcome,
                      [tried EXCEPT !.ret =
                          Append(@, PerformanceMetric(clock, step, th.warning - 1,
                                                      Some(th.warning), Some(th.critical)))])
             ELSE app_collect_from(i + 1, clock, outcome, tried)

\* ApplicationPerformanceMonitor.collect_metrics
app_collect_metrics(clock, outcome) ==
    app_collect_from(1, clock, outcome,
                     [attempted |-> << >>, raised |-> FALSE, ret |-> << >>])

Range(s) == {s[i] : i \in 1..Len(s)}

\* Every way the probes of one collection may fare
ProbeOutcomes(steps, outcomes) ==
    {o \in [Range(steps) -> {"ok", "none", "os_error", "raises", "fails"}] :
        \A step \in Range(steps) : o[step] \in outcomes[step]}

\* system_monitor.collect_metrics() is called; the store and the alert manager
\* are not touched
CollectSystem ==
    /\ \E outcome \in ProbeOutcomes(SystemSteps,
                                    [step \in Range(SystemSteps) |-> SystemOutcomes(step)]) :
          LET done == system_collect_metrics(now, outcome)
          IN  collect_call' = [collector |-> "system", outcome |-> outcome,
                               attempted |-> done.attempted, raised |-> done.raised,
                               ret |-> done.ret]
    /\ UNCHANGED <<now, notification_handlers, alertVars, storeVars, store_faults, call,
                   loopVars, cycle, api, stop_requested, health_call, db_call>>

\* app_monitor.collect_metrics() is called
CollectApp ==
    /\ \E outcome \in ProbeOutcomes(AppSteps,
                                    [step \in Range(AppSteps) |-> AppOutcomes(step)]) :
          LET done == app_collect_metrics(now, outcome)
          IN  collect_call' = [collector |-> "app", outcome |-> outcome,
                               attempted |-> done.attempted, raised |-> done.raised,
                               ret |-> done.ret]
    /\ UNCHANGED <<now, notification_handlers, alertVars, storeVars, store_faults, call,
                   loopVars, cycle, api, stop_requested, health_call, db_call>>

NextCollect == Tick \/ CollectSystem \/ CollectApp

SpecCollect == InitLoop /\ [][NextCollect]_vars

\* ====================================================================
\* The store, called directly
\* ====================================================================
\* Rows the three tables hold together in the runs of the direct calls
MaxRows == 2

\* metadata of a sample: None, an empty mapping, a mapping with one entry
Mappings == {{}, {<<"cores", 4>>}}

\* Samples handed to store_metric: without thresholds and metadata, with thresholds
\* and an empty mapping, with thresholds and a non-empty mapping
StoreSamples(clock) ==
    {[PerformanceMetric(clock, name, 1, opt[1], opt[2]) EXCEPT !.metadata = opt[3]] :
        name \in MetricNames,
        opt \in {<<None, None, None>>, <<Some(1), Some(2), Some({})>>,
                 <<Some(1), Some(2), Some({<<"cores", 4>>})>>}}

\* Alerts handed to store_alert: one unresolved, one recovery
StoreAlerts(clock) ==
    {PerformanceAlert(clock, "warning", "cpu_usage", 1, 1, "Warning threshold exceeded",
                      "warning", FALSE, None),
     PerformanceAlert(clock, "recovery", "cpu_usage", 0, 1, "Metric recovered", "info",
                      TRUE, Some(clock))}

\* Fields of the three dataclasses whose type is not Optional
MetricFields == {"timestamp", "metric_name", "value", "unit"}
AlertFields ==
    {"timestamp", "alert_type", "metric_name", "current_value", "threshold", "message",
     "severity", "resolved"}
HealthFields ==
    {"timestamp", "health_score", "status", "active_alerts", "performance_grade",
     "bottlenecks", "recommendations"}

\* init_database: the NOT NULL columns of the three tables
MetricNotNull == {"timestamp", "metric_name", "value", "unit"}
AlertNotNull ==
    {"timestamp", "alert_type", "metric_name", "current_value", "threshold", "message",
     "severity"}
HealthNotNull == {"timestamp", "health_score", "status", "active_alerts", "performance_grade"}

\* Columns store_health_snapshot passes through json.dumps: the parameter of the
\* INSERT is a text even when the field is None
HealthJsonColumns == {"bottlenecks", "recommendations"}

\* The object with the fields of `missing` set to None
RECURSIVE WithNone(_, _)
WithNone(obj, missing) ==
    IF missing = {} THEN obj
    ELSE LET f == CHOOSE g \in missing : TRUE
         IN  WithNone([obj EXCEPT ![f] = None], missing \ {f})

\* sqlite3.IntegrityError: a NULL parameter for a NOT NULL column
integrity_error(null_columns, not_null) == null_columns \cap not_null # {}

\* A caller passes an object with no field or one field missing
MissingChoices(fields) == {{}} \cup {{f} : f \in fields}

Tables == <<performance_metrics, performance_alerts, system_health>>
RowCount == Len(performance_metrics) + Len(performance_alerts) + Len(system_health)

\* db.store_metric(metric): the INSERT inside get_connection, which commits, or
\* rolls back and re-raises
StoreMetric ==
    /\ RowCount < MaxRows
    /\ \E metric \in StoreSamples(now), missing \in MissingChoices(MetricFields) :
          LET failed == integrity_error(missing, MetricNotNull)
          IN  /\ performance_metrics' =
                    IF failed THEN performance_metrics
                    ELSE store_metric(performance_metrics, WithNone(metric, missing))
              /\ db_call' = [op |-> "store_metric", args |-> << metric >>,
                             missing |-> missing, at |-> now,
                             before |-> Tables, raised |-> failed,
                             ret |-> << >>,
                             stored |-> IF failed THEN None ELSE Some(metric)]
    /\ UNCHANGED <<now, notification_handlers, alertVars, system_health, store_faults, call,
                   loopVars, cycle, api, stop_requested, health_call, collect_call>>

\* db.store_alert(alert)
StoreAlert ==
    /\ RowCount < MaxRows
    /\ \E alert \in StoreAlerts(now), missing \in MissingChoices(AlertFields) :
          LET failed == integrity_error(missing, AlertNotNull)
          IN  /\ performance_alerts' =
                    store_alert(performance_alerts, WithNone(alert, missing), ~failed)
              /\ db_call' = [op |-> "store_alert", args |-> << alert >>,
                             missing |-> missing, at |-> now,
                             before |-> Tables, raised |-> failed,
                             ret |-> << >>, stored |-> None]
    /\ UNCHANGED <<now, notification_handlers, recent_alerts, dispatched, storeVars,
                   store_faults, call, loopVars, cycle, api, stop_requested, health_call,
                   collect_call>>

\* The batch of the snapshot handed to store_health_snapshot: one sample at its
\* critical threshold, so that the snapshot has a bottleneck and a recommendation
StoreHealthBatch(clock) ==
    << PerformanceMetric(clock, "cpu_usage", SystemThresholds.cpu_usage.critical,
                         Some(SystemThresholds.cpu_usage.warning),
                         Some(SystemThresholds.cpu_usage.critical)) >>

\* db.store_health_snapshot(health)
StoreHealth ==
    /\ RowCount < MaxRows
    /\ \E missing \in MissingChoices(HealthFields) :
          LET health == calculate_system_health(StoreHealthBatch(now), << >>, now)
              failed == integrity_error(missing \ HealthJsonColumns, HealthNotNull)
          IN  /\ system_health' =
                    IF failed THEN system_health
                    ELSE store_health_snapshot(system_health, WithNone(health, missing))
              /\ db_call' = [op |-> "store_health_snapshot", args |-> << health >>,
                             missing |-> missing, at |-> now,
                             before |-> Tables, raised |-> failed,
                             ret |-> << >>, stored |-> None]
    /\ UNCHANGED <<now, notification_handlers, alertVars, performance_metrics, store_faults,
                   call, loopVars, cycle, api, stop_requested, health_call, collect_call>>

\* Windows asked of get_recent_metrics, in hours
WindowHours == {0, 1}

\* db.get_recent_metrics(metric_name, hours); the sample stored just before, if
\* any, stays on record
GetRecentMetrics ==
    /\ db_call.op # "get_recent_metrics"
    /\ \E metric_name \in MetricNames \cup {"disk_usage"}, hours \in WindowHours :
          db_call' = [op |-> "get_recent_metrics", args |-> <<metric_name, hours>>,
                      missing |-> {}, at |-> now, before |-> Tables, raised |-> FALSE,
                      ret |-> get_recent_metrics(performance_metrics, metric_name, hours, now),
                      stored |-> db_call.stored]
    /\ UNCHANGED <<now, notification_handlers, alertVars, storeVars, store_faults, call,
                   loopVars, cycle, api, stop_requested, health_call, collect_call>>

NextStore == Tick \/ StoreMetric \/ StoreHealth \/ StoreAlert \/ GetRecentMetrics

SpecStore == InitLoop /\ [][NextStore]_vars

\* ====================================================================
\* One metric evaluated over time
\* ====================================================================
\* The samples of one metric as the system collector builds them: the table's
\* thresholds, a reading below the warning threshold, at it, or at the critical one
SustainedInputs(clock) ==
    {PerformanceMetric(clock, "cpu_usage", v, Some(SystemThresholds.cpu_usage.warning),
                       Some(SystemThresholds.cpu_usage.critical)) :
        v \in Readings(SystemThresholds.cpu_usage)}

\* alert_manager.check_metric_thresholds(metric) on such a sample, the store and
\* the handlers working; the table has room for one alert more than in the runs
\* of arbitrary samples
EvaluateSustained ==
    \E metric \in SustainedInputs(now) :
        /\ ReachesSend(metric) => Len(performance_alerts) < MaxAlerts + 1
        /\ EvaluateWith(metric, TRUE, {})

NextSustained == Tick \/ EvaluateSustained

SpecSustained == InitLoop /\ [][NextSustained]_vars

\* The same call when store_alert raises (database unreachable)
EvaluateSustainedStoreFails ==
    /\ store_faults < MaxStoreFaults
    /\ \E metric \in SustainedInputs(now) :
          /\ ReachesSend(metric)
          /\ EvaluateWith(metric, FALSE, {})

NextSustainedFault == Tick \/ EvaluateSustained \/ EvaluateSustainedStoreFails

SpecSustainedFault == InitLoop /\ [][NextSustainedFault]_vars

\* ==== end of the program model ======================================
\* Properties of the alert manager
\* ====================================================================
\* Vocabulary of the properties: a call has been made at the current instant,
\* its argument, and conditions on the state the call started from
Called == call.metric # None
Arg == call.metric[1]
InWindow(recent, key) == key \in DOMAIN recent /\ now - recent[key] < AlertCooldown
HasUnresolved(table, name) ==
    \E i \in 1..Len(table) : table[i].metric_name = name /\ table[i].resolved = FALSE
AtOrAbove(value, threshold) == threshold # None /\ value >= threshold[1]
Below(value, threshold) == threshold # None /\ value < threshold[1]
IsAlertOf(a, metric, type, severity, threshold) ==
    /\ a.alert_type = type
    /\ a.severity = severity
    /\ a.threshold = threshold
    /\ a.metric_name = metric.metric_name
    /\ a.current_value = metric.value
    /\ a.timestamp = metric.timestamp
\* the call's sample is a breach of the given type, by the thresholds it carries
BreachType(metric) ==
    IF Truthy(metric.threshold_critical) /\ AtOrAbove(metric.value, metric.threshold_critical)
    THEN "critical"
    ELSE IF Truthy(metric.threshold_warning) /\ AtOrAbove(metric.value, metric.threshold_warning)
    THEN "warning"
    ELSE "none"
\* the call's sample has thresholds and lies below each one it has
InRange(metric) ==
    /\ metric.threshold_warning # None \/ metric.threshold_critical # None
    /\ metric.threshold_warning # None => Below(metric.value, metric.threshold_warning)
    /\ metric.threshold_critical # None => Below(metric.value, metric.threshold_critical)
IsRecoveryFor(a, metric) ==
    /\ a.alert_type = "recovery"
    /\ a.metric_name = metric.metric_name
    /\ a.resolved = TRUE
    /\ a.resolved_at = Some(metric.timestamp)

\* C1: any two alerts of the same key (metric name, alert type) that were
\* dispatched, that is persisted and handed to the handlers, lie at least the
\* 15-minute cooldown apart; the history of dispatches is the alert table
C1_CooldownSeparation ==
    /\ Len(dispatched) = Len(performance_alerts)
    /\ \A i \in 1..Len(dispatched) :
          dispatched[i].key = CooldownKey(performance_alerts[i])
    /\ \A i, j \in 1..Len(dispatched) :
          (i < j /\ dispatched[i].key = dispatched[j].key)
              => dispatched[j].at - dispatched[i].at >= AlertCooldown

\* C1 witness: a second critical alert of one metric was dispatched
C1_Witness ==
    \E i, j \in 1..Len(dispatched) :
        /\ i < j
        /\ dispatched[i].key = dispatched[j].key
        /\ dispatched[i].key[2] = "critical"

\* C2 as stated: every evaluation that reaches the cooldown check (its sample
\* breaches a threshold), suppressed or not, sets the cooldown timestamp of its
\* key to the current time
C2_RefreshedOnEveryEvaluation ==
    (Called /\ BreachType(Arg) # "none")
        => /\ <<Arg.metric_name, BreachType(Arg)>> \in DOMAIN recent_alerts
           /\ recent_alerts[<<Arg.metric_name, BreachType(Arg)>>] = now

\* C2 amended: the cooldown timestamp of a key is set to the current time by an
\* evaluation that is not suppressed and is left unchanged by a suppressed one
\* (no entry of the map changes then), so the window runs from the last dispatch
\* and an evaluation at or after its end dispatches again
C2_RefreshedOnlyOnDispatch ==
    (Called /\ BreachType(Arg) # "none")
        => LET key == <<Arg.metric_name, BreachType(Arg)>>
           IN  IF InWindow(call.recent_before, key)
               THEN recent_alerts = call.recent_before /\ call.ret = None
               ELSE /\ key \in DOMAIN recent_alerts /\ recent_alerts[key] = now
                    /\ \A k \in DOMAIN recent_alerts \ {key} :
                          /\ k \in DOMAIN call.recent_before
                          /\ recent_alerts[k] = call.recent_before[k]
                    /\ call.ret # None

\* C2 witness: a critical breach was evaluated inside the window, later than the
\* dispatch that opened it, and the timestamp still is that of the dispatch
C2_Witness ==
    /\ Called
    /\ call.ret = None
    /\ BreachType(Arg) = "critical"
    /\ <<Arg.metric_name, "critical">> \in DOMAIN recent_alerts
    /\ recent_alerts[<<Arg.metric_name, "critical">>] < now

\* C4 as stated: with an unresolved alert of metric M in the store, a sample of M
\* below its thresholds always yields a returned and persisted recovery alert
C4_RecoveryAlways ==
    (Called /\ HasUnresolved(call.alerts_before, Arg.metric_name) /\ InRange(Arg))
        => /\ call.ret # None
           /\ IsRecoveryFor(call.ret[1], Arg)
           /\ performance_alerts = Append(call.alerts_before, call.ret[1])

\* C4 amended: the same, provided the key (M, recovery) is outside its cooldown
\* window and the store accepts the row; inside the window the call returns None
\* and persists nothing
C4_RecoveryOutsideCooldown ==
    (Called /\ HasUnresolved(call.alerts_before, Arg.metric_name) /\ InRange(Arg))
        => IF InWindow(call.recent_before, <<Arg.metric_name, "recovery">>)
           THEN call.ret = None /\ performance_alerts = call.alerts_before
           ELSE /\ call.ret # None
                /\ IsRecoveryFor(call.ret[1], Arg)
                /\ performance_alerts = Append(call.alerts_before, call.ret[1])

\* C4 witness: an in-range sample of a metric with an unresolved alert was
\* evaluated and a recovery alert was returned and persisted
C4_Witness ==
    /\ Called
    /\ InRange(Arg)
    /\ HasUnresolved(call.alerts_before, Arg.metric_name)
    /\ call.ret # None
    /\ call.ret[1].alert_type = "recovery"
    /\ performance_alerts[Len(performance_alerts)] = call.ret[1]

\* C5: a sample whose critical threshold is set, whatever its number, and whose
\* value is at or above it is classified critical, with severity critical and
\* that threshold
C5_CriticalWheneverSet ==
    \A m \in MetricInputs(now) :
        AtOrAbove(m.value, m.threshold_critical)
            => LET a == ClassifyMetric(m, performance_alerts)
               IN  a # None /\ IsAlertOf(a[1], m, "critical", "critical", m.threshold_critical[1])

\* C6: a sample whose warning threshold is set, whatever its number, with
\* warning <= value, and value below the critical threshold or no critical
\* threshold, is classified warning, with severity warning and that threshold
C6_WarningWheneverSet ==
    \A m \in MetricInputs(now) :
        (/\ AtOrAbove(m.value, m.threshold_warning)
         /\ m.threshold_critical = None \/ Below(m.value, m.threshold_critical))
            => LET a == ClassifyMetric(m, performance_alerts)
               IN  a # None /\ IsAlertOf(a[1], m, "warning", "warning", m.threshold_warning[1])

\* C7: a sample below its warning threshold, or without thresholds, evaluated
\* while the store holds no unresolved alert of its metric, returns None,
\* persists nothing, reaches no handler and leaves the cooldown map as it was
C7_InRangeNoAlert ==
    (/\ Called
     /\ \/ Below(Arg.value, Arg.threshold_warning)
        \/ Arg.threshold_warning = None /\ Arg.threshold_critical = None
     /\ ~HasUnresolved(call.alerts_before, Arg.metric_name))
        => /\ call.ret = None
           /\ call.raised = FALSE
           /\ call.events = << >>
           /\ performance_alerts = call.alerts_before
           /\ recent_alerts = call.recent_before

\* C7 witness: such a sample was evaluated while another metric had an
\* unresolved alert in the store
C7_Witness ==
    /\ Called
    /\ call.ret = None
    /\ Below(Arg.value, Arg.threshold_warning)
    /\ ~HasUnresolved(call.alerts_before, Arg.metric_name)
    /\ \E n \in MetricNames : HasUnresolved(call.alerts_before, n)

\* C8: a sample that carries neither threshold never has an alert of any type
\* dispatched for it
C8_NoThresholdsNoAlert ==
    (Called /\ Arg.threshold_warning = None /\ Arg.threshold_critical = None)
        => /\ call.ret = None
           /\ call.events = << >>
           /\ performance_alerts = call.alerts_before

\* C9: in a dispatch the alert is persisted first, then every registered handler
\* is called once, in registration order, with that alert, whether or not an
\* earlier handler raised, and the call returns the alert
C9_StoreThenEveryHandler ==
    /\ call.events # << >> => call.events[1].op \in {"store", "store_failed"}
    /\ call.ret # None <=> (call.events # << >> /\ call.events[1].op = "store")
    /\ call.ret # None =>
          /\ call.raised = FALSE
          /\ call.events[1].alert = call.ret[1]
          /\ performance_alerts = Append(call.alerts_before, call.ret[1])
          /\ Len(call.events) = 1 + Len(notification_handlers)
          /\ \A i \in 1..Len(notification_handlers) :
                /\ call.events[i + 1].op = "notify"
                /\ call.events[i + 1].handler = notification_handlers[i]
                /\ call.events[i + 1].alert = call.ret[1]

\* C9 witness: the first of two handlers raised, the second was still called and
\* the alert was returned
C9_Witness ==
    /\ call.ret # None
    /\ Len(notification_handlers) = 2
    /\ Len(call.events) = 3
    /\ call.events[2].raised = TRUE
    /\ call.events[3].op = "notify"
    /\ call.events[3].handler = notification_handlers[2]

\* C10: an evaluation suppressed by the cooldown appends no alert row, calls no
\* handler and returns None; a call returns an alert only if it appended that
\* alert to the store and offered it to the handlers
C10_SuppressedChangesNothing ==
    Called
        => /\ (/\ ClassifyMetric(Arg, call.alerts_before) # None
               /\ InWindow(call.recent_before,
                           CooldownKey(ClassifyMetric(Arg, call.alerts_before)[1])))
                 => /\ call.ret = None
                    /\ call.raised = FALSE
                    /\ call.events = << >>
                    /\ performance_alerts = call.alerts_before
           /\ call.ret # None
                 => /\ performance_alerts = Append(call.alerts_before, call.ret[1])
                    /\ Len(call.events) = 1 + Len(notification_handlers)
                    /\ \A i \in 1..Len(call.events) : call.events[i].alert = call.ret[1]

\* C10 witness: a warning breach was evaluated inside the window of its key and
\* returned None
C10_Witness ==
    /\ Called
    /\ call.ret = None
    /\ BreachType(Arg) = "warning"
    /\ InWindow(call.recent_before, <<Arg.metric_name, "warning">>)
    /\ call.alerts_before # << >>

\* ====================================================================
\* Properties of the monitoring loop
\* ====================================================================
\* the loop threads that are inside a cycle
InCycle == {t \in 1..MaxThreads : threads[t] = "cycle"}

\* C3: at most one loop thread is running cycles at any time
C3_AtMostOneLoop == Cardinality(InCycle) <= 1

\* s is an initial part of t
IsPrefix(s, t) == Len(s) <= Len(t) /\ SubSeq(t, 1, Len(s)) = s

\* C11: the store is append-only: every step leaves each row of the metric, alert
\* and health tables where it was and as it was; rows are only added at the end
C11_AppendOnly ==
    [][/\ IsPrefix(performance_metrics, performance_metrics')
       /\ IsPrefix(performance_alerts, performance_alerts')
       /\ IsPrefix(system_health, system_health')]_vars

\* a recovery row has been added after an alert row of the same metric, which is
\* still unresolved; samples and a snapshot are in the store as well
C11_Witness ==
    /\ performance_metrics # << >>
    /\ system_health # << >>
    /\ \E i, j \in 1..Len(performance_alerts) :
          /\ i < j
          /\ performance_alerts[j].alert_type = "recovery"
          /\ performance_alerts[i].metric_name = performance_alerts[j].metric_name
          /\ performance_alerts[i].resolved = FALSE

\* ====================================================================
\* Properties of the health aggregation
\* ====================================================================
HealthCalled == health_call.metrics # None
HealthArgs == health_call.metrics[1]
HealthResult == health_call.result[1]

\* a sample at or above its critical threshold; another one at or above its
\* warning threshold
AtCritical(m) == AtOrAbove(m.value, m.threshold_critical)
AtWarningOnly(m) == ~AtCritical(m) /\ AtOrAbove(m.value, m.threshold_warning)
Breaching(m) == AtCritical(m) \/ AtWarningOnly(m)

\* the number of entries of a sequence with a property
CountCritical(metrics) == Cardinality({i \in 1..Len(metrics) : AtCritical(metrics[i])})
CountWarningOnly(metrics) == Cardinality({i \in 1..Len(metrics) : AtWarningOnly(metrics[i])})
CountSeverity(alerts, sev) == Cardinality({i \in 1..Len(alerts) : alerts[i].severity = sev})

\* the score by the stated formula
StatedScore(metrics, alerts) ==
    LET raw == 100 - 20 * CountCritical(metrics) - 10 * CountWarningOnly(metrics)
                   - 15 * CountSeverity(alerts, "critical")
                   - 5 * CountSeverity(alerts, "warning")
    IN  IF raw < 0 THEN 0 ELSE IF raw > 100 THEN 100 ELSE raw

\* the names of the breaching samples, in batch order
BreachingNames(metrics) ==
    LET Name(m) == m.metric_name
        names == [i \in 1..Len(metrics) |-> Name(metrics[i])]
        IsBreach(i) == Breaching(metrics[i])
        RECURSIVE Pick(_)
        Pick(i) == IF i > Len(metrics) THEN << >>
                   ELSE (IF IsBreach(i) THEN << names[i] >> ELSE << >>) \o Pick(i + 1)
    IN  Pick(1)

BottleneckNames(bottlenecks) == [k \in 1..Len(bottlenecks) |-> bottlenecks[k][1]]

\* C12: the score of every aggregation is 100 minus 20 per sample at or above its
\* critical threshold, 10 per other sample at or above its warning threshold, 15
\* per critical alert and 5 per warning alert, clamped to 0..100, with one
\* bottleneck per breaching sample in batch order; cpu_usage=92 (70/85) with its
\* critical alert gives 65, degraded, C; three samples in range and no alert give
\* 100, healthy, A and no bottleneck
C12_ScoreFormula ==
    HealthCalled =>
        /\ HealthResult.health_score = StatedScore(HealthArgs, health_call.alerts)
        /\ BottleneckNames(HealthResult.bottlenecks) = BreachingNames(HealthArgs)
        /\ LET cpu92 == PerformanceMetric(now, "cpu_usage", 92, Some(70), Some(85))
               cpu69 == PerformanceMetric(now, "cpu_usage", 69, Some(70), Some(85))
           IN  /\ (HealthArgs = << cpu92 >> /\ health_call.alerts = << HealthAlert("critical") >>)
                    => /\ HealthResult.health_score = 65
                       /\ HealthResult.status = "degraded"
                       /\ HealthResult.performance_grade = "C"
               /\ (HealthArgs = << cpu69, cpu69, cpu69 >> /\ health_call.alerts = << >>)
                    => /\ HealthResult.health_score = 100
                       /\ HealthResult.status = "healthy"
                       /\ HealthResult.performance_grade = "A"
                       /\ HealthResult.bottlenecks = << >>

\* the batch with sample i replaced
ReplaceAt(metrics, i, m) == [metrics EXCEPT ![i] = m]

\* the score of the aggregation of these inputs at the current clock
ScoreOf(metrics, alerts) == calculate_system_health(metrics, alerts, now).health_score

\* C13: the score lies in 0..100 and does not increase when a breaching sample is
\* added to the batch, when the value of a sample is raised (from in range to
\* warning, from warning to critical), or when a warning or critical alert is
\* added to the alerts
C13_ScoreMonotone ==
    HealthCalled =>
        /\ HealthResult.health_score \in 0..100
        /\ \A m \in HealthSamples(now) :
              Breaching(m) =>
                 ScoreOf(Append(HealthArgs, m), health_call.alerts)
                    <= HealthResult.health_score
        /\ \A i \in 1..Len(HealthArgs) : \A m \in HealthSamples(now) :
              (/\ m.metric_name = HealthArgs[i].metric_name
               /\ m.threshold_warning = HealthArgs[i].threshold_warning
               /\ m.threshold_critical = HealthArgs[i].threshold_critical
               /\ m.value >= HealthArgs[i].value)
                 => ScoreOf(ReplaceAt(HealthArgs, i, m), health_call.alerts)
                       <= HealthResult.health_score
        /\ \A sev \in {"warning", "critical"} :
              ScoreOf(HealthArgs, Append(health_call.alerts, HealthAlert(sev)))
                 <= HealthResult.health_score

\* an aggregation whose deductions exceed 100 and whose score is 0, and one that
\* a further critical alert takes from above 0 to a lower score
C13_Witness ==
    /\ HealthCalled
    /\ HealthResult.health_score > 0
    /\ ScoreOf(HealthArgs, Append(health_call.alerts, HealthAlert("critical")))
          < HealthResult.health_score
    /\ ScoreOf(Append(HealthArgs, PerformanceMetric(now, "cpu_usage", 92, Some(70), Some(85))),
               health_call.alerts) = 0
    /\ 20 * CountCritical(HealthArgs) + 15 * CountSeverity(health_call.alerts, "critical") = 85

\* the status and grade a score stands for
TierOf(score, status, grade) ==
    /\ score >= 90 => (status = "healthy" /\ grade = "A")
    /\ (75 <= score /\ score < 90) => (status = "good" /\ grade = "B")
    /\ (60 <= score /\ score < 75) => (status = "degraded" /\ grade = "C")
    /\ (40 <= score /\ score < 60) => (status = "poor" /\ grade = "D")
    /\ score < 40 => (status = "critical" /\ grade = "F")

SameVerdict(h1, h2) ==
    /\ h1.health_score = h2.health_score
    /\ h1.status = h2.status
    /\ h1.performance_grade = h2.performance_grade
    /\ h1.active_alerts = h2.active_alerts
    /\ h1.bottlenecks = h2.bottlenecks
    /\ h1.recommendations = h2.recommendations

C16_StartWhileActiveNoOp ==
    (api.op = "start_monitoring" /\ api.active_before) =>
        /\ monitoring_active
        /\ monitoring_thread = api.thread_before
        /\ threads = api.threads_before

\* start_monitoring has just been called with monitoring active and the loop
\* thread inside a cycle
C16_Witness ==
    /\ api.op = "start_monitoring"
    /\ api.active_before
    /\ api.thread_before # None
    /\ threads[api.thread_before[1]] = "cycle"

\* C17: a loop thread that was alive when stop_monitoring was called begins no
\* new cycle: from its test of the flag it never goes into another cycle
C17_NoNewCycleAfterStop ==
    [][\A t \in stop_requested : ~(threads[t] = "test" /\ threads'[t] = "cycle")]_vars

\* a cycle of thread t has just ended by an exception
CycleRaised(t) == cycle.thread = Some(t) /\ cycle.raised

\* C18: a cycle that raises does not end its thread: the thread goes to sleep and
\* on to the test of the flag, and unless monitoring is switched off it begins
\* another cycle
C18_LoopNeverFatal ==
    \A t \in 1..MaxThreads :
        /\ [](CycleRaised(t) => threads[t] = "test")
        /\ (CycleRaised(t) ~> (threads[t] = "cycle" \/ ~monitoring_active))

\* a cycle has raised while monitoring is active; its thread is asleep
C18_Witness ==
    \E t \in 1..MaxThreads :
        /\ CycleRaised(t)
        /\ monitoring_active
        /\ threads[t] = "test"

\* ====================================================================
\* Properties of one monitoring cycle
\* ====================================================================
CycleDone == cycle.thread # None /\ ~cycle.raised

\* the positions of the cycle's events of one kind, for sample i where it has one
EventsOf(op) == {k \in 1..Len(cycle.events) : cycle.events[k].op = op}
SampleEvents(op, i) == {k \in EventsOf(op) : cycle.events[k].i = i}

\* C19: a cycle that completes has run the system collector and then the
\* application collector; has written every sample of their joint batch to the
\* store and evaluated it, in batch order, the sample before its evaluation and
\* so before the alert it causes; and has then appended one snapshot computed from
\* the whole batch and the alerts dispatched in the cycle
C19_CycleOrder ==
    CycleDone =>
        LET n == Len(cycle.batch)
            e == cycle.events
        IN  /\ Len(e) >= 3
            /\ e[1] = [op |-> "collect", monitor |-> "system"]
            /\ e[2] = [op |-> "collect", monitor |-> "app"]
            /\ \A i, j \in 1..n :
                  (cycle.batch[i].metric_name = "error_rate"
                   /\ cycle.batch[j].metric_name = "cpu_usage") => j < i
            /\ performance_metrics = cycle.metrics_before \o cycle.batch
            /\ \A i \in 1..n :
                  /\ Cardinality(SampleEvents("store_metric", i)) = 1
                  /\ Cardinality(SampleEvents("check_metric_thresholds", i)) = 1
                  /\ \A k \in SampleEvents("store_metric", i) :
                        /\ k > 2
                        /\ e[k + 1] = [op |-> "check_metric_thresholds", i |-> i]
                        /\ \A l \in SampleEvents("store_metric", i + 1) : k < l
            /\ \A k \in EventsOf("store") :
                  \E i \in 1..n :
                     /\ e[k].alert.metric_name = cycle.batch[i].metric_name
                     /\ e[k].alert.current_value = cycle.batch[i].value
                     /\ \A l \in SampleEvents("check_metric_thresholds", i) : l < k
                     /\ \A l \in SampleEvents("store_metric", i + 1) : k < l
            /\ performance_alerts = cycle.alerts_before \o cycle.alerts_generated
            /\ cycle.alerts_generated =
                  [k \in 1..Cardinality(EventsOf("store")) |->
                      e[CHOOSE p \in EventsOf("store") :
                            Cardinality({q \in EventsOf("store") : q <= p}) = k].alert]
            /\ EventsOf("store_health_snapshot") = {Len(e)}
            /\ Len(system_health) = Len(cycle.health_before) + 1
            /\ SubSeq(system_health, 1, Len(cycle.health_before)) = cycle.health_before
            /\ LET h == system_health[Len(system_health)]
               IN  /\ h = health_row(e[Len(e)].health)
                   /\ h.timestamp = now
                   /\ h.active_alerts = Len(cycle.alerts_generated)
                   /\ h.health_score = StatedScore(cycle.batch, cycle.alerts_generated)
                   /\ BottleneckNames(json_loads(h.bottlenecks)) = BreachingNames(cycle.batch)

\* a completed cycle over a batch of both collectors in which an alert was
\* dispatched
C19_Witness ==
    /\ CycleDone
    /\ Len(cycle.batch) = 2
    /\ cycle.alerts_generated # << >>
    /\ cycle.alerts_before # << >>

\* a store write for one sample or one alert of the cycle has failed
SampleWriteFailed == cycle.thread # None /\ cycle.fault[1] \in {"store_metric", "store_alert"}

\* C20: a cycle in which the store write of one sample or one alert fails goes
\* on: every other sample of the batch is written, every sample after the failure
\* is evaluated, and the snapshot of the cycle is written
C20_CycleContinuesAfterStoreFailure ==
    SampleWriteFailed =>
        /\ \A i \in 1..Len(cycle.batch) :
              /\ i # cycle.fault[2] => SampleEvents("store_metric", i) # {}
              /\ i > cycle.fault[2] => SampleEvents("check_metric_thresholds", i) # {}
        /\ Len(system_health) = Len(cycle.health_before) + 1

\* ====================================================================
\* Properties of the collectors
\* ====================================================================
Collected == collect_call.collector # "none"
StepsOf(collector) == IF collector = "system" THEN SystemSteps ELSE AppSteps
SampleNames(metrics) == [i \in 1..Len(metrics) |-> metrics[i].metric_name]
Succeeded(step) == collect_call.outcome[step] = "ok"

\* C21: collect_metrics never raises, and the failure of a probe omits only that
\* probe's sample: every probe of the collector, before or after a failing one,
\* is attempted, and the samples returned are those of the probes that
\* succeeded, in the order of the probes
C21_FailureOmitsOnlyItsSample ==
    Collected =>
        /\ ~collect_call.raised
        /\ collect_call.attempted = StepsOf(collect_call.collector)
        /\ SampleNames(collect_call.ret) =
              SelectSeq(StepsOf(collect_call.collector), Succeeded)

\* ====================================================================
\* Properties of the store
\* ====================================================================
DbCalled(op) == db_call.op = op
Stored == db_call.stored[1]
QueriedName == db_call.args[1]
QueriedHours == db_call.args[2]
WithinHours(timestamp, hours) == timestamp >= db_call.at - hours * 60
CountIn(s, x) == Cardinality({i \in 1..Len(s) : s[i] = x})

\* C22: a sample written by store_metric and read back by get_recent_metrics for
\* its name and a window that covers it is returned equal in every field,
\* whatever its optional fields are (thresholds absent or present, metadata
\* absent, an empty mapping or a non-empty one)
C22_RoundTripEqual ==
    (/\ DbCalled("get_recent_metrics")
     /\ db_call.stored # None
     /\ QueriedName = Stored.metric_name
     /\ WithinHours(Stored.timestamp, QueriedHours))
        => \E i \in 1..Len(db_call.ret) : db_call.ret[i] = Stored

\* C23: get_recent_metrics(name, window) returns exactly the persisted samples of
\* that name whose timestamp is at or after now minus the window, newest first;
\* it returns the empty sequence when nothing matches and never a sample of
\* another name
C23_ExactlyTheRecentOfThatName ==
    DbCalled("get_recent_metrics") =>
        LET ret == db_call.ret
            table == db_call.before[1]
            Wanted(row) ==
                row.metric_name = QueriedName /\ WithinHours(row.timestamp, QueriedHours)
        IN  /\ ~db_call.raised
            /\ \A i \in 1..Len(ret) :
                  /\ ret[i].metric_name = QueriedName
                  /\ WithinHours(ret[i].timestamp, QueriedHours)
                  /\ CountIn(ret, ret[i])
                        = Cardinality({k \in 1..Len(table) :
                                          Wanted(table[k]) /\ metric_of_row(table[k]) = ret[i]})
            /\ Len(ret) = Cardinality({k \in 1..Len(table) : Wanted(table[k])})
            /\ \A i \in 1..Len(ret), j \in 1..Len(ret) :
                  i < j => ret[i].timestamp >= ret[j].timestamp
            /\ Tables = db_call.before

\* two samples of the queried name written at different instants are returned,
\* the later one first
C23_Witness ==
    /\ DbCalled("get_recent_metrics")
    /\ Len(db_call.ret) = 2
    /\ db_call.ret[1].timestamp > db_call.ret[2].timestamp
    /\ performance_metrics[1].timestamp < performance_metrics[2].timestamp

\* C24: a store write of a sample, an alert or a snapshot in which a mandatory
\* field (any field but the thresholds, the metadata and resolved_at) is missing
\* fails with an error and leaves the three tables as they were
C24_MissingFieldRejected ==
    (/\ db_call.op \in {"store_metric", "store_alert", "store_health_snapshot"}
     /\ db_call.missing # {})
        => /\ db_call.raised
           /\ Tables = db_call.before

\* ====================================================================
\* Properties of recoveries and of the cooldown keys
\* ====================================================================
ActiveAlerts == Range(get_active_alerts(performance_alerts))
EverBreached(table, name) ==
    \E i \in 1..Len(table) :
        table[i].metric_name = name /\ table[i].alert_type \in {"warning", "critical"}
DispatchesOf(key) == {i \in 1..Len(dispatched) : dispatched[i].key = key}

\* C25: the set of active alerts never shrinks. A recovery leaves the earlier
\* alerts of its metric unresolved, so once a warning or critical alert of M is
\* persisted every later in-range sample of M is classified as a recovery, and a
\* recovery alert is dispatched whenever the (M, recovery) cooldown has elapsed
\* (and none inside the window)
C25_RecoveryForever ==
    /\ [][ActiveAlerts \subseteq ActiveAlerts']_vars
    /\ []((Called /\ InRange(Arg) /\ EverBreached(call.alerts_before, Arg.metric_name))
            => LET classified == ClassifyMetric(Arg, call.alerts_before)
               IN  /\ HasUnresolved(call.alerts_before, Arg.metric_name)
                   /\ classified # None
                   /\ IsRecoveryFor(classified[1], Arg)
                   /\ IF InWindow(call.recent_before, <<Arg.metric_name, "recovery">>)
                      THEN call.ret = None
                      ELSE /\ call.ret = classified
                           /\ performance_alerts = Append(call.alerts_before, classified[1]))

\* a second recovery alert of the same metric is dispatched, a cooldown window
\* after the first, the warning that started it still being active
C25_Witness ==
    /\ Called
    /\ InRange(Arg)
    /\ call.ret # None
    /\ Cardinality(DispatchesOf(<<Arg.metric_name, "recovery">>)) = 2
    /\ Cardinality(DispatchesOf(<<Arg.metric_name, "warning">>)) = 1
    /\ \E a \in ActiveAlerts : a.metric_name = Arg.metric_name /\ a.alert_type = "warning"

\* C26: the cooldown entries are independent per key (metric name, alert type).
\* An evaluation touches at most the entry of its own key, and whether it is
\* suppressed depends on that entry alone: a critical breach inside the warning
\* window of its metric is dispatched, and a critical breach less than 15 minutes
\* after the last dispatched critical alert of its metric is suppressed, a
\* recovery dispatched in between or not
C26_KeysIndependent ==
    Called =>
        LET classified == ClassifyMetric(Arg, call.alerts_before)
        IN  IF classified = None
            THEN recent_alerts = call.recent_before /\ call.ret = None
            ELSE LET key == <<Arg.metric_name, classified[1].alert_type>>
                 IN  /\ DOMAIN recent_alerts \subseteq DOMAIN call.recent_before \cup {key}
                     /\ \A k \in DOMAIN call.recent_before :
                           k # key => k \in DOMAIN recent_alerts
                                      /\ recent_alerts[k] = call.recent_before[k]
                     /\ call.ret = None <=> InWindow(call.recent_before, key)
                     /\ call.ret # None => recent_alerts[key] = now

\* a critical alert of a metric was dispatched, then a recovery of the same
\* metric, and a critical breach inside the critical window is suppressed
C26_Witness ==
    /\ Called
    /\ BreachType(Arg) = "critical"
    /\ call.ret = None
    /\ \E i \in 1..Len(dispatched), j \in 1..Len(dispatched) :
          /\ i < j
          /\ dispatched[i].key = <<Arg.metric_name, "critical">>
          /\ dispatched[j].key = <<Arg.metric_name, "recovery">>

\* C27: when store_alert raises during a dispatch the exception leaves
\* check_metric_thresholds, no handler is invoked and no row is added, but the
\* cooldown entry of the key is already set to the current time; a later
\* classification of that key inside the window is suppressed, although nothing
\* was persisted or notified
C27_FailedStoreStillCoolsDown ==
    Called =>
        LET classified == ClassifyMetric(Arg, call.alerts_before)
        IN  /\ call.raised =>
                  /\ classified # None
                  /\ ~InWindow(call.recent_before, CooldownKey(classified[1]))
                  /\ call.ret = None
                  /\ call.events = << [op |-> "store_failed", alert |-> classified[1]] >>
                  /\ performance_alerts = call.alerts_before
                  /\ recent_alerts = DictSet(call.recent_before, CooldownKey(classified[1]), now)
            /\ (classified # None /\ InWindow(call.recent_before, CooldownKey(classified[1])))
                  => /\ ~call.raised
                     /\ call.ret = None
                     /\ call.events = << >>
                     /\ performance_alerts = call.alerts_before

\* a classification is suppressed by the entry a failed dispatch left: no alert
\* of its key was ever persisted or handed to a handler
C27_Witness ==
    /\ Called
    /\ ~call.raised
    /\ call.ret = None
    /\ store_faults = 1
    /\ LET classified == ClassifyMetric(Arg, call.alerts_before)
       IN  /\ classified # None
           /\ InWindow(call.recent_before, CooldownKey(classified[1]))
           /\ DispatchesOf(CooldownKey(classified[1])) = {}
           /\ \A i \in 1..Len(performance_alerts) :
                 CooldownKey(performance_alerts[i]) # CooldownKey(classified[1])

\* C28: in every persisted alert, the type is recovery exactly when resolved is
\* true, exactly when the severity is info, exactly when resolved_at is set; a
\* warning has severity warning and is unresolved, a critical alert has severity
\* critical and is unresolved; the threshold is never null: a recovery carries
\* the sample's warning threshold, or 0 when the sample has none
C28_AlertRowShape ==
    /\ \A i \in 1..Len(performance_alerts) :
          LET a == performance_alerts[i]
          IN  /\ a.alert_type \in {"warning", "critical", "recovery"}
              /\ a.alert_type = "recovery" <=> a.resolved = TRUE
              /\ a.alert_type = "recovery" <=> a.severity = "info"
              /\ a.alert_type = "recovery" <=> a.resolved_at # None
              /\ a.alert_type = "warning" => a.severity = "warning" /\ a.resolved = FALSE
              /\ a.alert_type = "critical" => a.severity = "critical" /\ a.resolved = FALSE
              /\ a.threshold \in Nat
    /\ (Called /\ call.ret # None /\ call.ret[1].alert_type = "recovery")
          => /\ performance_alerts[Len(performance_alerts)] = call.ret[1]
             /\ call.ret[1].threshold = IF Arg.threshold_warning # None
                                        THEN Arg.threshold_warning[1] ELSE 0

\* a recovery of a sample without warning threshold is persisted, with threshold
\* 0, next to the critical alert it answers
C28_Witness ==
    /\ Called
    /\ call.ret # None
    /\ call.ret[1].alert_type = "recovery"
    /\ Arg.threshold_warning = None
    /\ performance_alerts[Len(performance_alerts)].threshold = 0
    /\ performance_alerts[Len(performance_alerts)].resolved_at = Some(now)
    /\ performance_alerts[1].alert_type = "critical"

\* ====================================================================
\* Properties relating the alert manager and the health aggregation
\* ====================================================================
ClassifiedAs(metric, table) ==
    IF ClassifyMetric(metric, table) = None THEN "none"
    ELSE ClassifyMetric(metric, table)[1].alert_type

\* the part of C29 that is about agreement alone
AgreeOnBreach(metric, table) ==
    /\ MetricDeduction(metric) = 20 <=> ClassifiedAs(metric, table) = "critical"
    /\ MetricDeduction(metric) = 10 <=> ClassifiedAs(metric, table) = "warning"

\* C29: the evaluation and the health aggregation agree on every sample,
\* thresholds of 0 and absent thresholds included: the aggregation deducts 20
\* exactly when check_metric_thresholds classifies the sample critical and 10
\* exactly when it classifies it warning; and a sample whose value equals one of
\* its thresholds is a breach in both
C29_SameBreachClassification ==
    Called =>
        /\ AgreeOnBreach(Arg, call.alerts_before)
        /\ (Arg.threshold_critical # None /\ Arg.value = Arg.threshold_critical[1])
              => /\ MetricDeduction(Arg) = 20
                 /\ ClassifiedAs(Arg, call.alerts_before) = "critical"
        /\ (Arg.threshold_warning # None /\ Arg.value = Arg.threshold_warning[1])
              => /\ MetricDeduction(Arg) \in {10, 20}
                 /\ ClassifiedAs(Arg, call.alerts_before) \in {"warning", "critical"}

\* the alert rows the cycle on record added to the store
CycleRows ==
    SubSeq(performance_alerts, Len(cycle.alerts_before) + 1, Len(performance_alerts))
CycleSnapshot == system_health[Len(system_health)]

\* C30: in the snapshot a cycle writes, active_alerts is the number of alerts
\* dispatched in that cycle: recoveries count, alerts suppressed by cooldown and
\* unresolved alerts of earlier cycles do not. The score deducts the alert
\* penalty (15 or 5) for the alerts dispatched in the cycle only, so a breaching
\* sample whose alert is suppressed costs its threshold penalty (20 or 10) alone
C30_SnapshotCountsCycleAlerts ==
    CycleDone =>
        /\ IsPrefix(cycle.alerts_before, performance_alerts)
        /\ CycleRows = cycle.alerts_generated
        /\ CycleSnapshot.active_alerts = Len(CycleRows)
        /\ CycleSnapshot.health_score = StatedScore(cycle.batch, CycleRows)
        /\ CycleRows = << >> =>
              CycleSnapshot.health_score
                 = 100 - 20 * CountCritical(cycle.batch) - 10 * CountWarningOnly(cycle.batch)

\* a cycle whose only sample is at its warning threshold while the warning of an
\* earlier cycle is unresolved and in cooldown: nothing is dispatched, the
\* snapshot counts no alert and scores 90, where the earlier cycle scored 85
C30_Witness ==
    /\ CycleDone
    /\ Len(cycle.batch) = 1
    /\ AtWarningOnly(cycle.batch[1])
    /\ cycle.alerts_generated = << >>
    /\ HasUnresolved(cycle.alerts_before, cycle.batch[1].metric_name)
    /\ CycleSnapshot.active_alerts = 0
    /\ CycleSnapshot.health_score = 90
    /\ Len(system_health) = 2
    /\ system_health[1].health_score = 85
    /\ system_health[1].active_alerts = 1
====
